---------------------------- MODULE Spec2Model ----------------------------
(***************************************************************************)
(* A model of the ABSAPolEmo training pipeline:                            *)
(*   - the two feature builders of utils/data_utils.py                     *)
(*     (convert_examples_to_features_LSTM / _Transformers, append_pending),*)
(*   - the corpus loader and example assembly (load_from_folder,           *)
(*     get_examples),                                                      *)
(*   - the epoch loop of models/Transformers.py (Transformers.train).      *)
(* Each part is a state machine of its own over the variables below; the   *)
(* variables of the parts a specification does not exercise stay at their  *)
(* initial values.                                                         *)
(***************************************************************************)
EXTENDS Integers, Sequences, FiniteSets, TLC

(***************************************************************************)
(* Bounds of the model.                                                    *)
(***************************************************************************)
\* total number of words over all examples handed to a feature builder
MaxTokens == 3
\* largest number of sub-word pieces the encoder yields for one word
MaxPieces == 2
\* largest max_seq_length explored (the smallest is 2: the two markers)
MaxSeqLen == 6
\* largest gradient_accumulation_steps, epochs and mini-batches per epoch
MaxAccum == 3
MaxEpochs == 3
MaxBatches == 3
\* the train_batch_size argument
MaxBatchSize == 3
\* documents of the training corpus, and labels per document, of the two runs
MaxDocs == 2
MaxDocLabels == 2
\* JSON files in the corpus directory
MaxFiles == 103
\* largest number of sub-words per word in the two-document scenario
MaxScenarioPieces == 3

VARIABLES
    \* ---- feature builders (data_utils.py:63-180, 220-243)
    model_name,       \* "LSTM" or "BERT": the dispatch of convert_examples_to_features
    max_seq_length,   \* the max_seq_length argument
    label_list,       \* the label vocabulary, in the order the caller passes it
    examples,         \* the examples consumed by the loop so far (text_a words, label)
    ex_index,         \* number of loop iterations completed
    cur,              \* the loop's locals after the last iteration
    pending,          \* the pending_* buffers of the packing strategy
    pending_is_cur,   \* whether pending_* are the loop's own list objects
    features,         \* the features list
    fpc               \* position of the builder: "loop", "done" or "error"

featVars == <<model_name, max_seq_length, label_list, examples, ex_index,
              cur, pending, pending_is_cur, features, fpc>>

VARIABLES
    \* ---- Transformers.train (Transformers.py:18-151)
    out_dir,          \* the output directory: [exists, files]
    root_handlers,    \* whether the root logger already has handlers
    gradient_accumulation_steps,
    train_batch_size, \* the train_batch_size argument
    train_corpus_ok,  \* whether get_examples(data_path) returns (line 51)
    valid_corpus_ok,  \* whether get_examples(valid_path) returns (line 101)
    epochs,
    n_batches,        \* len(train_dataloader)
    epoch_save_model,
    epoch_no,
    step,             \* index of the next mini-batch of the epoch (from 0)
    accum,            \* backward passes accumulated since the last zero_grad
    opt_steps,        \* per optimizer.step(): the backward passes it applied
    best_val_f1,
    val_f1,           \* the F1 evaluate_model returned, epoch by epoch (in %)
    saves,            \* the epochs in which model.pt and params.json were written
    tpc               \* "start", "batch", "validate", "done" or "error"

trainVars == <<out_dir, root_handlers, gradient_accumulation_steps,
               train_batch_size, train_corpus_ok, valid_corpus_ok, epochs,
               n_batches, epoch_save_model, epoch_no, step, accum, opt_steps,
               best_val_f1, val_f1, saves, tpc>>

VARIABLES
    \* ---- two training runs over one corpus (get_examples, the label map)
    train_labels,     \* y_train of the corpus: one label list per document
    run_no,           \* the run in progress, 1 or 2
    run_label_list,   \* per run: the label_list get_examples returned
    run_label_map,    \* per run: the label map built from it
    gpc               \* "get_examples", "label_map" or "done"

labelVars == <<train_labels, run_no, run_label_list, run_label_map, gpc>>

VARIABLES
    \* ---- load_from_folder (data_utils.py:34-45)
    listing,          \* os.listdir(path): file names, each split at its dots
    file_data,        \* what the directory's files hold, by the name's first part
    files,            \* the names that passed the filter
    f_index,          \* number of files read
    x_train,
    y_train,
    lpc               \* "start", "loop", "done" or "error"

loadVars == <<listing, file_data, files, f_index, x_train, y_train, lpc>>

vars == <<featVars, trainVars, labelVars, loadVars>>

(***************************************************************************)
(* Python list helpers.                                                    *)
(***************************************************************************)
Min(a, b) == IF a < b THEN a ELSE b

\* s[0:k] for k >= 0
Take(s, k) == SubSeq(s, 1, Min(k, Len(s)))

\* [v] * n  (the empty list when n <= 0)
Repeat(v, n) == [i \in 1..n |-> v]

Range(s) == {s[i] : i \in 1..Len(s)}

RECURSIVE Flatten(_)
\* the concatenation of a list of lists
Flatten(ss) == IF ss = <<>> THEN <<>> ELSE Head(ss) \o Flatten(Tail(ss))

(***************************************************************************)
(* The label map: {label: i for i, label in enumerate(label_list, 1)},     *)
(* then label_map["IGNORE"] = 0.  A later duplicate overwrites an earlier  *)
(* one, as in a dict comprehension.                                        *)
(***************************************************************************)
ignored_label == "IGNORE"

LastIndexOf(l, list) ==
    CHOOSE i \in 1..Len(list) :
        /\ list[i] = l
        /\ \A j \in (i+1)..Len(list) : list[j] # l

label_map_of(list) ==
    [l \in Range(list) \cup {ignored_label} |->
        IF l = ignored_label THEN 0 ELSE LastIndexOf(l, list)]

(***************************************************************************)
(* The encoder (model.encode_word).  A word is identified by the number of *)
(* sub-word pieces the encoder gives it, 0..MaxPieces; its pieces get ids  *)
(* of their own, all different from the marker ids 0 and 2 and the padding *)
(* id 1.                                                                   *)
(***************************************************************************)
Words == 0..MaxPieces

encode_method(word) == [m \in 1..word |-> 10 * word + m]

RECURSIVE encode_words(_)
\* the encoder applied to a whole token list (the recurrent strategy)
encode_words(textlist) ==
    IF textlist = <<>> THEN <<>>
    ELSE encode_method(Head(textlist)) \o encode_words(Tail(textlist))

(***************************************************************************)
(* Recurrent strategy: one iteration of the loop of                        *)
(* convert_examples_to_features_LSTM.                                      *)
(***************************************************************************)
\* lines 82-86: truncate to max_seq_length or right-pad with id 0
LSTMTokenIdsNoTrunc(textlist, msl) ==
    LET ids == encode_words(textlist)
    IN  IF Len(ids) < msl THEN ids \o Repeat(0, msl - Len(ids)) ELSE ids

LSTMTokenIds(textlist, msl) ==
    LET ids == encode_words(textlist)
    IN  IF Len(ids) > msl THEN Take(ids, msl)
        ELSE IF Len(ids) < msl THEN ids \o Repeat(0, msl - Len(ids))
        ELSE ids

\* lines 87 and 95: valid_ids is built from the already padded token_ids
LSTMValidIds(token_ids, msl) ==
    Repeat(1, Len(token_ids)) \o Repeat(0, msl - Len(token_ids))

\* lines 88-94
LSTMLabelIds(labellist, msl, lmap) ==
    [i \in 1..msl |-> IF i > Len(labellist) THEN lmap[ignored_label]
                      ELSE lmap[labellist[i]]]

LSTMLabelMask(labellist, msl) ==
    [i \in 1..msl |-> IF i > Len(labellist) THEN 0 ELSE 1]

\* lines 97-101
LSTMFeature(example, msl, lmap) ==
    LET token_ids == LSTMTokenIds(example.text_a, msl)
    IN  [input_ids  |-> token_ids,
         input_mask |-> Repeat(1, Len(token_ids)),
         label_id   |-> LSTMLabelIds(example.label, msl, lmap),
         valid_ids  |-> LSTMValidIds(token_ids, msl),
         label_mask |-> LSTMLabelMask(example.label, msl)]

(***************************************************************************)
(* Transformer strategy: the per-example part of the loop of               *)
(* convert_examples_to_features_Transformers (lines 115-162).              *)
(***************************************************************************)
\* lines 126-134, with every piece marked as word-initial
WordPiecesAllValid(word, label_1) ==
    LET tokens == encode_method(word)
    IN  [token_ids  |-> tokens,
         labels     |-> [m \in 1..Len(tokens) |-> label_1],
         valid      |-> [m \in 1..Len(tokens) |-> 1],
         label_mask |-> [m \in 1..Len(tokens) |-> 1]]

\* lines 123-134: the pieces of one word
WordPieces(word, label_1) ==
    LET tokens == encode_method(word)
    IN  [token_ids  |-> tokens,
         labels     |-> [m \in 1..Len(tokens) |->
                            IF m = 1 THEN label_1 ELSE ignored_label],
         valid      |-> [m \in 1..Len(tokens) |-> IF m = 1 THEN 1 ELSE 0],
         label_mask |-> [m \in 1..Len(tokens) |-> IF m = 1 THEN 1 ELSE 0]]

EmptyArrays == [token_ids |-> <<>>, labels |-> <<>>, valid |-> <<>>,
                label_mask |-> <<>>]

RECURSIVE SubWords(_, _)
\* lines 122-134: the loop over the words of one example
SubWords(textlist, labellist) ==
    IF textlist = <<>> THEN EmptyArrays
    ELSE LET w == WordPieces(Head(textlist), Head(labellist))
             r == SubWords(Tail(textlist), Tail(labellist))
         IN  [token_ids  |-> w.token_ids \o r.token_ids,
              labels     |-> w.labels \o r.labels,
              valid      |-> w.valid \o r.valid,
              label_mask |-> w.label_mask \o r.label_mask]

\* line 137, off by one
TrimNeededLate(n, msl) == n > msl - 1

\* line 137: the trim condition
TrimNeeded(n, msl) == n >= msl - 1

\* lines 137-141
Trimmed(a, msl) ==
    IF TrimNeeded(Len(a.token_ids), msl)
    THEN [token_ids  |-> Take(a.token_ids, msl - 2),
          labels     |-> Take(a.labels, msl - 2),
          valid      |-> Take(a.valid, msl - 2),
          label_mask |-> Take(a.label_mask, msl - 2)]
    ELSE a

\* lines 143-162: the markers <s> (0) and </s> (2), the label ids, input_mask
Marked(example, msl, lmap) ==
    LET a == Trimmed(SubWords(example.text_a, example.label), msl)
        labels == <<ignored_label>> \o a.labels \o <<ignored_label>>
        token_ids == <<0>> \o a.token_ids \o <<2>>
    IN  [token_ids  |-> token_ids,
         label_ids  |-> [i \in 1..Len(token_ids) |-> lmap[labels[i]]],
         valid      |-> <<0>> \o a.valid \o <<0>>,
         label_mask |-> <<0>> \o a.label_mask \o <<0>>,
         input_mask |-> Repeat(1, Len(token_ids))]

(***************************************************************************)
(* append_pending (lines 220-243).  Its two while loops append to the five *)
(* lists it was handed, so the caller's pending_* lists are padded too:    *)
(* padded is what they hold afterwards.  It then asserts the five lengths  *)
(* (ok is FALSE when an assertion fails) and builds the record around the  *)
(* same lists.                                                             *)
(***************************************************************************)
\* lines 222-231: the two padding loops, on the lists themselves
PadPending(p, msl, lmap) ==
    LET k   == IF Len(p.token_ids) < msl THEN msl - Len(p.token_ids) ELSE 0
        lab == p.label_ids \o Repeat(lmap[ignored_label], k)
        lm  == p.label_mask \o Repeat(0, k)
        k2  == IF Len(lab) < msl THEN msl - Len(lab) ELSE 0
    IN  [token_ids  |-> p.token_ids \o Repeat(1, k),
         input_mask |-> p.input_mask \o Repeat(0, k),
         label_ids  |-> lab \o Repeat(lmap[ignored_label], k2),
         valid      |-> p.valid \o Repeat(0, k),
         label_mask |-> lm \o Repeat(0, k2)]

append_pending(p, msl, lmap) ==
    LET q == PadPending(p, msl, lmap)
    IN  [ok     |-> /\ Len(q.token_ids) = msl
                    /\ Len(q.input_mask) = msl
                    /\ Len(q.label_ids) = msl
                    /\ Len(q.valid) = msl
                    /\ Len(q.label_mask) = msl,
         rec    |-> [input_ids  |-> q.token_ids,
                     input_mask |-> q.input_mask,
                     label_id   |-> q.label_ids,
                     valid_ids  |-> q.valid,
                     label_mask |-> q.label_mask],
         padded |-> q]

\* line 163, with >= for >
OverflowsEager(n, pending_len, msl) == n + pending_len >= msl

\* line 163: the example does not fit behind the pending buffer
Overflows(n, pending_len, msl) == n + pending_len > msl

EmptyPending == [token_ids |-> <<>>, input_mask |-> <<>>, label_ids |-> <<>>,
                 valid |-> <<>>, label_mask |-> <<>>]

(***************************************************************************)
(* Inputs of the feature builders.                                         *)
(***************************************************************************)
LabelNames == {"O", "PERSON"}

\* the enumeration orders of the label vocabulary
LabelOrders == {<<"O", "PERSON">>, <<"PERSON", "O">>}

SeqLens == 2..MaxSeqLen

\* an example of n words: text_a as its list of words, one label per word
ExamplesOfLen(n) ==
    {[text_a |-> t, label |-> l] : t \in [1..n -> Words], l \in [1..n -> LabelNames]}

RECURSIVE TokenCount(_)
TokenCount(exs) ==
    IF exs = <<>> THEN 0 ELSE Len(Head(exs).text_a) + TokenCount(Tail(exs))


(***************************************************************************)
(* The parts a specification does not exercise rest in these states.       *)
(***************************************************************************)
FeatIdle ==
    /\ model_name = "BERT"
    /\ max_seq_length = 2
    /\ label_list = <<>>
    /\ examples = <<>>
    /\ ex_index = 0
    /\ cur = EmptyPending
    /\ pending = EmptyPending
    /\ pending_is_cur = FALSE
    /\ features = <<>>
    /\ fpc = "idle"

TrainIdle ==
    /\ out_dir = [exists |-> FALSE, files |-> {}, snapshots |-> {}]
    /\ root_handlers = FALSE
    /\ gradient_accumulation_steps = 1
    /\ train_batch_size = 1
    /\ train_corpus_ok = TRUE
    /\ valid_corpus_ok = TRUE
    /\ epochs = 0
    /\ n_batches = 1
    /\ epoch_save_model = FALSE
    /\ epoch_no = 0
    /\ step = 0
    /\ accum = 0
    /\ opt_steps = <<>>
    /\ best_val_f1 = 0
    /\ val_f1 = <<>>
    /\ saves = <<>>
    /\ tpc = "idle"

LabelIdle ==
    /\ train_labels = <<>>
    /\ run_no = 1
    /\ run_label_list = <<>>
    /\ run_label_map = <<>>
    /\ gpc = "idle"

LoadIdle ==
    /\ listing = <<>>
    /\ file_data = <<>>
    /\ files = <<>>
    /\ f_index = 0
    /\ x_train = <<>>
    /\ y_train = <<>>
    /\ lpc = "idle"

FeatInit ==
    /\ model_name \in {"LSTM", "BERT"}
    /\ max_seq_length \in SeqLens
    /\ label_list \in LabelOrders
    /\ examples = <<>>
    /\ ex_index = 0
    /\ cur = EmptyPending
    /\ pending = EmptyPending
    /\ pending_is_cur = FALSE
    /\ features = <<>>
    /\ fpc = "loop"

(***************************************************************************)
(* convert_examples_to_features_LSTM: one iteration, then the return.      *)
(***************************************************************************)
LSTMExample ==
    /\ fpc = "loop"
    /\ model_name = "LSTM"
    /\ \E n \in 1..(MaxTokens - TokenCount(examples)) :
       \E example \in ExamplesOfLen(n) :
          /\ examples' = Append(examples, example)
          /\ features' = Append(features,
                 LSTMFeature(example, max_seq_length, label_map_of(label_list)))
    /\ ex_index' = ex_index + 1
    /\ UNCHANGED <<model_name, max_seq_length, label_list, cur, pending,
                   pending_is_cur, fpc>>
    /\ UNCHANGED <<trainVars, labelVars, loadVars>>

LSTMReturn ==
    /\ fpc = "loop"
    /\ model_name = "LSTM"
    /\ fpc' = "done"
    /\ UNCHANGED <<model_name, max_seq_length, label_list, examples, ex_index,
                   cur, pending, pending_is_cur, features>>
    /\ UNCHANGED <<trainVars, labelVars, loadVars>>

(***************************************************************************)
(* convert_examples_to_features_Transformers: one iteration of the loop    *)
(* (lines 114-177), then the final flush and the return (lines 178-180).   *)
(***************************************************************************)
\* lines 173-177, with the example put in front of the buffer
ExtendPendingFront(p, m) ==
    [token_ids  |-> m.token_ids \o p.token_ids,
     input_mask |-> m.input_mask \o p.input_mask,
     label_ids  |-> m.label_ids \o p.label_ids,
     valid      |-> m.valid \o p.valid,
     label_mask |-> m.label_mask \o p.label_mask]

\* lines 173-177: the five extends of the pending buffers
ExtendPending(p, m) ==
    [token_ids  |-> p.token_ids \o m.token_ids,
     input_mask |-> p.input_mask \o m.input_mask,
     label_ids  |-> p.label_ids \o m.label_ids,
     valid      |-> p.valid \o m.valid,
     label_mask |-> p.label_mask \o m.label_mask]

\* lines 115-177: the body of the loop for one example.  Lines 117-120, 157
\* and 162 bind the loop's locals to new lists (cur), so pending_* are no
\* longer the loop's own lists; lines 167-171 bind pending_* to those very
\* lists.  The old pending_* lists that append_pending padded live on in the
\* record only.
TransformersStep(example) ==
    LET lmap == label_map_of(label_list)
        m    == Marked(example, max_seq_length, lmap)
    IN  /\ examples' = Append(examples, example)
        /\ cur' = m
        /\ IF Overflows(Len(m.token_ids), Len(pending.token_ids), max_seq_length)
           THEN LET r == append_pending(pending, max_seq_length, lmap)
                IN  IF r.ok
                    THEN /\ features' = Append(features, r.rec)
                         /\ pending' = m
                         /\ pending_is_cur' = TRUE
                         /\ fpc' = fpc
                    ELSE /\ fpc' = "error"
                         /\ pending' = r.padded
                         /\ pending_is_cur' = FALSE
                         /\ UNCHANGED features
           ELSE /\ pending' = ExtendPending(pending, m)
                /\ pending_is_cur' = FALSE
                /\ UNCHANGED <<features, fpc>>
        /\ ex_index' = ex_index + 1
        /\ UNCHANGED <<model_name, max_seq_length, label_list>>
        /\ UNCHANGED <<trainVars, labelVars, loadVars>>

TransformersExample ==
    /\ fpc = "loop"
    /\ model_name # "LSTM"
    /\ \E n \in 1..(MaxTokens - TokenCount(examples)) :
       \E example \in ExamplesOfLen(n) : TransformersStep(example)

\* lines 178-180: append_pending pads pending_* in place, and with them the
\* loop's locals when the last example had overflowed (they are one list)
TransformersFlush ==
    /\ fpc = "loop"
    /\ model_name # "LSTM"
    /\ LET r == append_pending(pending, max_seq_length, label_map_of(label_list))
       IN  /\ pending' = r.padded
           /\ cur' = IF pending_is_cur THEN r.padded ELSE cur
           /\ IF r.ok
              THEN /\ features' = Append(features, r.rec)
                   /\ fpc' = "done"
              ELSE /\ fpc' = "error"
                   /\ UNCHANGED features
    /\ UNCHANGED <<model_name, max_seq_length, label_list, examples, ex_index,
                   pending_is_cur>>
    /\ UNCHANGED <<trainVars, labelVars, loadVars>>

FeatNext ==
    \/ LSTMExample
    \/ LSTMReturn
    \/ TransformersExample
    \/ TransformersFlush

Init == FeatInit /\ TrainIdle /\ LabelIdle /\ LoadIdle

Next == FeatNext

Spec == Init /\ [][Next]_vars

(***************************************************************************)
(* The two-document scenario: the words Jan, Kowalski, pracuje labelled    *)
(* PERSON, PERSON, O and the word Ala labelled PERSON, max_seq_length = 8, *)
(* under every encoder that yields 1..MaxScenarioPieces sub-words per word *)
(* (a word being identified by its number of sub-words).                   *)
(***************************************************************************)
ScenarioLabels == << <<"PERSON", "PERSON", "O">>, <<"PERSON">> >>

\* the k-th example of the corpus under each encoder
ScenarioExamples(k) ==
    {[text_a |-> t, label |-> ScenarioLabels[k]] :
        t \in [1..Len(ScenarioLabels[k]) -> 1..MaxScenarioPieces]}

ScenarioInit ==
    /\ model_name = "BERT"
    /\ max_seq_length = 8
    /\ label_list \in LabelOrders
    /\ examples = <<>>
    /\ ex_index = 0
    /\ cur = EmptyPending
    /\ pending = EmptyPending
    /\ pending_is_cur = FALSE
    /\ features = <<>>
    /\ fpc = "loop"

ScenarioExample ==
    /\ fpc = "loop"
    /\ ex_index < Len(ScenarioLabels)
    /\ \E example \in ScenarioExamples(ex_index + 1) : TransformersStep(example)

ScenarioFlush ==
    /\ ex_index = Len(ScenarioLabels)
    /\ TransformersFlush

ScenarioNext ==
    \/ ScenarioExample
    \/ ScenarioFlush

InitScenario == ScenarioInit /\ TrainIdle /\ LabelIdle /\ LoadIdle

SpecScenario == InitScenario /\ [][ScenarioNext]_vars

(***************************************************************************)
(* Transformers.train (Transformers.py:18-151).                            *)
(***************************************************************************)
\* line 23: os.path.exists(output_dir) and os.listdir(output_dir)
OutputDirBlocked(d) == d.exists /\ (d.files # {} \/ d.snapshots # {})

\* lines 26-27: os.makedirs when the directory does not exist
MakeDirs(d) ==
    IF ~d.exists THEN [exists |-> TRUE, files |-> {}, snapshots |-> {}] ELSE d

\* lines 29-32: logging.basicConfig(filename=<output_dir>/log.txt) opens the
\* log file, unless the root logger already has handlers (then it does nothing)
BasicConfig(d, handlers) ==
    IF handlers THEN d ELSE [d EXCEPT !.files = @ \cup {"log.txt"}]

\* line 36
InvalidAccumulation(g) == g < 1

\* line 40: train_batch_size // gradient_accumulation_steps
PerStepBatchSize(b, g) == b \div g

\* line 54 divides by the batch size of line 40: ZeroDivisionError when it is 0
StepCountFails(b, g) == PerStepBatchSize(b, g) = 0

\* line 132
StepsOptimizer(s, g) == (s + 1) % g = 0

\* line 140, with >= for >
ImprovesOrEquals(f1, best) == f1 >= best

\* line 140
Improves(f1, best) == f1 > best

\* lines 144-145: torch.save of model.pt, save_params of params.json
SaveCheckpoint(d) == [d EXCEPT !.files = @ \cup {"model.pt", "params.json"}]

\* lines 147-151: the per-epoch snapshot directory e%03d
SaveSnapshot(d, e) == [d EXCEPT !.snapshots = @ \cup {e}]

\* the F1 values evaluate_model may return, in percent
F1Values == {0, 40, 50, 60}

OutputDirs ==
    { [exists |-> FALSE, files |-> {}, snapshots |-> {}],
      [exists |-> TRUE,  files |-> {}, snapshots |-> {}],
      [exists |-> TRUE,  files |-> {"model.pt"}, snapshots |-> {}] }

TrainInit ==
    /\ out_dir \in OutputDirs
    /\ root_handlers \in BOOLEAN
    /\ gradient_accumulation_steps \in 0..MaxAccum
    /\ train_batch_size \in 0..MaxBatchSize
    /\ train_corpus_ok \in BOOLEAN
    /\ valid_corpus_ok \in BOOLEAN
    /\ epochs \in 0..MaxEpochs
    /\ n_batches \in 1..MaxBatches
    /\ epoch_save_model \in BOOLEAN
    /\ epoch_no = 0
    /\ step = 0
    /\ accum = 0
    /\ opt_steps = <<>>
    /\ best_val_f1 = 0
    /\ val_f1 = <<>>
    /\ saves = <<>>
    /\ tpc = "start"

\* lines 23-109: the checks, the set-up, and the entry of the epoch loop.
\* The exits, in the order of the code: the ValueError of line 24, the error
\* of line 37, get_examples raising at line 51 (a missing or unreadable
\* corpus), the ZeroDivisionError of line 54, get_examples raising at line
\* 101.  Lines 56-99 (the construction of the model, the optimizer and the
\* training features) are taken to succeed.
TrainSetup ==
    /\ tpc = "start"
    /\ IF OutputDirBlocked(out_dir)
       THEN /\ tpc' = "error"
            /\ UNCHANGED <<out_dir, root_handlers, epoch_no>>
       ELSE /\ out_dir' = BasicConfig(MakeDirs(out_dir), root_handlers)
            /\ root_handlers' = TRUE
            /\ IF \/ InvalidAccumulation(gradient_accumulation_steps)
                  \/ ~train_corpus_ok
                  \/ StepCountFails(train_batch_size, gradient_accumulation_steps)
                  \/ ~valid_corpus_ok
               THEN /\ tpc' = "error"
                    /\ UNCHANGED epoch_no
               ELSE IF epochs >= 1
               THEN /\ tpc' = "batch"
                    /\ epoch_no' = 1
               ELSE /\ tpc' = "done"
                    /\ UNCHANGED epoch_no
    /\ UNCHANGED <<gradient_accumulation_steps, train_batch_size,
                   train_corpus_ok, valid_corpus_ok, epochs, n_batches,
                   epoch_save_model, step, accum, opt_steps, best_val_f1,
                   val_f1, saves>>
    /\ UNCHANGED <<featVars, labelVars, loadVars>>

\* lines 116-135: one mini-batch
TrainBatch ==
    /\ tpc = "batch"
    /\ IF StepsOptimizer(step, gradient_accumulation_steps)
       THEN /\ opt_steps' = Append(opt_steps, accum + 1)
            /\ accum' = 0
       ELSE /\ accum' = accum + 1
            /\ UNCHANGED opt_steps
    /\ IF step + 1 = n_batches
       THEN /\ tpc' = "validate"
            /\ step' = 0
       ELSE /\ step' = step + 1
            /\ UNCHANGED tpc
    /\ UNCHANGED <<out_dir, root_handlers, gradient_accumulation_steps,
                   train_batch_size, train_corpus_ok, valid_corpus_ok, epochs,
                   n_batches, epoch_save_model, epoch_no, best_val_f1, val_f1,
                   saves>>
    /\ UNCHANGED <<featVars, labelVars, loadVars>>

\* lines 137-151: validation, the checkpoint, the snapshot, the next epoch
Validate ==
    /\ tpc = "validate"
    /\ \E f1 \in F1Values :
          LET better == Improves(f1, best_val_f1)
              d1 == IF better THEN SaveCheckpoint(out_dir) ELSE out_dir
          IN  /\ val_f1' = Append(val_f1, f1)
              /\ best_val_f1' = IF better THEN f1 ELSE best_val_f1
              /\ saves' = IF better THEN Append(saves, epoch_no) ELSE saves
              /\ out_dir' = IF epoch_save_model THEN SaveSnapshot(d1, epoch_no)
                            ELSE d1
    /\ IF epoch_no < epochs
       THEN /\ epoch_no' = epoch_no + 1
            /\ tpc' = "batch"
       ELSE /\ tpc' = "done"
            /\ UNCHANGED epoch_no
    /\ UNCHANGED <<root_handlers, gradient_accumulation_steps,
                   train_batch_size, train_corpus_ok, valid_corpus_ok, epochs,
                   n_batches, epoch_save_model, step, accum, opt_steps>>
    /\ UNCHANGED <<featVars, labelVars, loadVars>>

TrainNext ==
    \/ TrainSetup
    \/ TrainBatch
    \/ Validate

InitTrain == TrainInit /\ FeatIdle /\ LabelIdle /\ LoadIdle

SpecTrain == InitTrain /\ [][TrainNext]_vars

(***************************************************************************)
(* Two runs of the program over one training corpus: get_examples          *)
(* (data_utils.py:48-60) returns list(set(label_list)), whose order is the *)
(* set's enumeration order; Transformers.train (lines 51, 88-89) hands it  *)
(* on as it is to the feature builder, which builds the label map          *)
(* (data_utils.py:106-107).                                                *)
(***************************************************************************)
LabelVocab == {"O", "PERSON", "PLACE"}

\* documents' label lists
DocLabels == UNION {[1..n -> LabelVocab] : n \in 1..MaxDocLabels}

Corpora == UNION {[1..n -> DocLabels] : n \in 0..MaxDocs}

\* lines 50-57: label_list.extend(y_train[i]) over the documents, as a set
LabelSet(y) == UNION {Range(y[i]) : i \in 1..Len(y)}

\* line 60: list(set(label_list)), one list per enumeration order of the set
SetEnumerations(S) ==
    {p \in [1..Cardinality(S) -> S] :
        \A i, j \in 1..Cardinality(S) : p[i] = p[j] => i = j}

LabelInit ==
    /\ train_labels \in Corpora
    /\ run_no = 1
    /\ run_label_list = <<>>
    /\ run_label_map = <<>>
    /\ gpc = "get_examples"

\* get_examples of the run in progress
GetExamples ==
    /\ gpc = "get_examples"
    /\ \E order \in SetEnumerations(LabelSet(train_labels)) :
          run_label_list' = Append(run_label_list, order)
    /\ gpc' = "label_map"
    /\ UNCHANGED <<train_labels, run_no, run_label_map>>
    /\ UNCHANGED <<featVars, trainVars, loadVars>>

\* the label map of the run in progress, from label_list as returned
BuildLabelMap ==
    /\ gpc = "label_map"
    /\ run_label_map' = Append(run_label_map, label_map_of(run_label_list[run_no]))
    /\ IF run_no = 1
       THEN /\ run_no' = 2
            /\ gpc' = "get_examples"
       ELSE /\ gpc' = "done"
            /\ UNCHANGED run_no
    /\ UNCHANGED <<train_labels, run_label_list>>
    /\ UNCHANGED <<featVars, trainVars, loadVars>>

LabelNext ==
    \/ GetExamples
    \/ BuildLabelMap

InitLabel == LabelInit /\ FeatIdle /\ TrainIdle /\ LoadIdle

SpecLabel == InitLabel /\ [][LabelNext]_vars

(***************************************************************************)
(* load_from_folder (data_utils.py:34-45).  A file name is the list of its *)
(* parts between dots (x.split('.')); the directory holds n_other .txt     *)
(* files, then the .json documents, then possibly a name without a dot.    *)
(***************************************************************************)
\* line 43: the cap
DocCap == 100

\* line 37: x.split('.')[1] == 'json'
IsJson(name) == name[2] = "json"

\* line 37 raises IndexError on a name without a dot
FilterFails(names) == \E i \in 1..Len(names) : Len(names[i]) < 2

(***************************************************************************)
(* read_json (lines 10-31).  A file is [json, keys, chunks, annotations]:  *)
(* whether its text parses as JSON, the keys of the top-level object, and  *)
(* the values under 'chunks' (a list of lists of lists of tokens           *)
(* [orth, annotations]) and 'annotations' (a list of [id, type]).  Tokens  *)
(* and annotations are taken to carry the keys the code indexes.           *)
(***************************************************************************)
Token(orth, ids) == [orth |-> orth, annotations |-> ids]

Annotation(id, type) == [id |-> id, type |-> type]

\* Annotation.get_type(): the annotation's type name
get_type(annotation) == annotation.type

\* lines 17-19: the tokens of every chunk of chunks[0], in order
text_tuples(chunks) == Flatten(chunks[1])

\* lines 20-21: ann_dict, a later annotation replacing an earlier one of its id
ann_dict(annotations) ==
    [id \in {annotations[i].id : i \in 1..Len(annotations)} |->
        LET last == CHOOSE i \in 1..Len(annotations) :
                       /\ annotations[i].id = id
                       /\ \A k \in (i + 1)..Len(annotations) : annotations[k].id # id
        IN  annotations[last]]

\* lines 25-28: the type of the token's first annotation, or 'O'
token_label(ann, dict) ==
    IF Len(ann) > 0 THEN get_type(dict[ann[1]]) ELSE "O"

\* the exits of read_json: JSONDecodeError (line 12), KeyError (lines 15, 16),
\* IndexError on chunks[0] (line 17), KeyError on ann_dict[ann[0]] (line 26)
ReadFails(data) ==
    \/ ~data.json
    \/ "chunks" \notin data.keys
    \/ "annotations" \notin data.keys
    \/ Len(data.chunks) = 0
    \/ \E i \in 1..Len(text_tuples(data.chunks)) :
          LET ann == text_tuples(data.chunks)[i].annotations
          IN  /\ Len(ann) > 0
              /\ ann[1] \notin DOMAIN ann_dict(data.annotations)

\* lines 10-31: ok is FALSE when the call raises
read_json(data) ==
    IF ReadFails(data)
    THEN [ok |-> FALSE, tokens |-> <<>>, labels |-> <<>>]
    ELSE LET tt   == text_tuples(data.chunks)
             dict == ann_dict(data.annotations)
         IN  [ok     |-> TRUE,
              tokens |-> [i \in 1..Len(tt) |-> tt[i].orth],
              labels |-> [i \in 1..Len(tt) |->
                             token_label(tt[i].annotations, dict)]]

\* line 11: the file of that name
Open(name) == file_data[name[1]]

JsonFile(chunks, annotations) ==
    [json |-> TRUE, keys |-> {"chunks", "annotations"},
     chunks |-> chunks, annotations |-> annotations]

\* the files a directory may hold: three documents and five files that
\* read_json cannot read
Documents ==
    { \* two chunks in chunks[0], a second list under 'chunks' that is not
      \* read, a token with two annotations, an id annotated twice
      JsonFile(<< << <<Token("Jan", <<1>>)>>,
                     <<Token("Kowalski", <<2, 1>>), Token("pracuje", <<>>)>> >>,
                  << <<Token("Ala", <<1>>)>> >> >>,
               <<Annotation(1, "PLACE"), Annotation(2, "PLACE"),
                 Annotation(1, "PERSON")>>),
      \* one token without annotation
      JsonFile(<< << <<Token("Jan", <<>>)>> >> >>, <<>>),
      \* no token
      JsonFile(<< << <<>> >> >>, <<>>),
      \* not JSON
      [json |-> FALSE, keys |-> {}, chunks |-> <<>>, annotations |-> <<>>],
      \* no 'chunks'
      [json |-> TRUE, keys |-> {"annotations"}, chunks |-> <<>>,
       annotations |-> <<>>],
      \* no 'annotations'
      [json |-> TRUE, keys |-> {"chunks"},
       chunks |-> << << <<Token("Jan", <<>>)>> >> >>, annotations |-> <<>>],
      \* 'chunks' is an empty list
      JsonFile(<<>>, <<>>),
      \* a token that refers to an annotation the document does not have
      JsonFile(<< << <<Token("Ala", <<3>>)>> >> >>, <<Annotation(1, "PERSON")>>) }

Listings ==
    { [i \in 1..(o + n + d) |->
          IF i <= o THEN <<i, "txt">>
          ELSE IF i <= o + n THEN <<i, "json">>
          ELSE <<i>>] :
      o \in 0..1, n \in 0..MaxFiles, d \in 0..1 }

\* the first file of the listing holds one document, the others another
LoadInit ==
    /\ listing \in Listings
    /\ \E first, others \in Documents :
          file_data = [i \in 1..Len(listing) |-> IF i = 1 THEN first ELSE others]
    /\ files = <<>>
    /\ f_index = 0
    /\ x_train = <<>>
    /\ y_train = <<>>
    /\ lpc = "start"

\* lines 35-37
LoadStart ==
    /\ lpc = "start"
    /\ IF FilterFails(listing)
       THEN /\ lpc' = "error"
            /\ UNCHANGED files
       ELSE /\ files' = SelectSeq(listing, IsJson)
            /\ lpc' = "loop"
    /\ UNCHANGED <<listing, file_data, f_index, x_train, y_train>>
    /\ UNCHANGED <<featVars, trainVars, labelVars>>

\* lines 38-44: one file, and the break; read_json raising ends the call
LoadFile ==
    /\ lpc = "loop"
    /\ f_index < Len(files)
    /\ LET doc == read_json(Open(files[f_index + 1]))
       IN  IF doc.ok
           THEN /\ x_train' = Append(x_train, doc.tokens)
                /\ y_train' = Append(y_train, doc.labels)
                /\ f_index' = f_index + 1
                /\ lpc' = IF Len(x_train') > DocCap THEN "done" ELSE "loop"
           ELSE /\ lpc' = "error"
                /\ UNCHANGED <<f_index, x_train, y_train>>
    /\ UNCHANGED <<listing, file_data, files>>
    /\ UNCHANGED <<featVars, trainVars, labelVars>>

\* line 45, the files being exhausted
LoadReturn ==
    /\ lpc = "loop"
    /\ f_index = Len(files)
    /\ lpc' = "done"
    /\ UNCHANGED <<listing, file_data, files, f_index, x_train, y_train>>
    /\ UNCHANGED <<featVars, trainVars, labelVars>>

LoadNext ==
    \/ LoadStart
    \/ LoadFile
    \/ LoadReturn

InitLoad == LoadInit /\ FeatIdle /\ TrainIdle /\ LabelIdle

SpecLoad == InitLoad /\ [][LoadNext]_vars

(***************************************************************************)
(* Reading the returned records back.                                      *)
(***************************************************************************)
AllInputIds == Flatten([k \in 1..Len(features) |-> features[k].input_ids])
AllLabelIds == Flatten([k \in 1..Len(features) |-> features[k].label_id])
AllValidIds == Flatten([k \in 1..Len(features) |-> features[k].valid_ids])

RECURSIVE SegmentLabels(_, _, _, _, _)
\* The label ids at the validity=1 positions, read in order and grouped by
\* example: a <s> marker (token id 0) opens the next example's group.
SegmentLabels(tok, lab, val, i, acc) ==
    IF i > Len(tok) THEN acc
    ELSE IF tok[i] = 0
         THEN SegmentLabels(tok, lab, val, i + 1, Append(acc, <<>>))
    ELSE IF val[i] = 1 /\ acc # <<>>
         THEN SegmentLabels(tok, lab, val, i + 1,
                            [acc EXCEPT ![Len(acc)] = Append(@, lab[i])])
    ELSE SegmentLabels(tok, lab, val, i + 1, acc)

ProjectedLabels == SegmentLabels(AllInputIds, AllLabelIds, AllValidIds, 1, <<>>)

\* the mapped labels of an example's words, one per word, in word order
WordLabelIds(example) ==
    [i \in 1..Len(example.label) |-> label_map_of(label_list)[example.label[i]]]

\* number of sub-words of an example before the markers
PieceCount(example) == Len(encode_words(example.text_a))

\* number of sub-word positions of an example that survive the trim
KeptPieces(example) ==
    IF PieceCount(example) >= max_seq_length - 1
    THEN max_seq_length - 2 ELSE PieceCount(example)

RECURSIVE KeptWordLabels(_, _, _)
\* the mapped labels of the words that have a first sub-word and whose first
\* sub-word lies among the first `room` sub-word positions
KeptWordLabels(textlist, labellist, room) ==
    IF textlist = <<>> THEN <<>>
    ELSE (IF Head(textlist) >= 1 /\ room >= 1
          THEN <<label_map_of(label_list)[Head(labellist)]>> ELSE <<>>)
         \o KeptWordLabels(Tail(textlist), Tail(labellist), room - Head(textlist))

Untrimmed(example) == PieceCount(example) < max_seq_length - 1

EveryWordEncoded(example) == \A i \in 1..Len(example.text_a) : example.text_a[i] >= 1

TransformersDone == model_name # "LSTM" /\ fpc = "done"

(***************************************************************************)
(* C1: every record of the features list, of either builder, flushed       *)
(* mid-loop or at the end, has its five arrays of length max_seq_length.   *)
(***************************************************************************)
C1_RecordLengths ==
    \A k \in 1..Len(features) :
        /\ Len(features[k].input_ids) = max_seq_length
        /\ Len(features[k].input_mask) = max_seq_length
        /\ Len(features[k].label_id) = max_seq_length
        /\ Len(features[k].valid_ids) = max_seq_length
        /\ Len(features[k].label_mask) = max_seq_length

\* the transformer builder has returned records flushed mid-loop and at the end
C1_Witness ==
    /\ TransformersDone
    /\ Len(features) >= 2
    /\ \E k \in 1..Len(examples) : PieceCount(examples[k]) > max_seq_length

\* the recurrent builder has returned the record of a document longer than
\* max_seq_length and of one shorter
C1_WitnessLSTM ==
    /\ model_name = "LSTM" /\ fpc = "done"
    /\ \E k \in 1..Len(examples) : PieceCount(examples[k]) > max_seq_length
    /\ \E k \in 1..Len(examples) : PieceCount(examples[k]) < max_seq_length

(***************************************************************************)
(* C2 as stated: the labels at the validity=1 positions of the returned    *)
(* records are, example by example, one label per word in word order       *)
(* (stated here only of examples whose words all encode to at least one    *)
(* sub-word).                                                              *)
(***************************************************************************)
C2_RoundTripAllWords ==
    TransformersDone =>
        /\ Len(ProjectedLabels) = Len(examples)
        /\ \A k \in 1..Len(examples) :
              EveryWordEncoded(examples[k])
                 => ProjectedLabels[k] = WordLabelIds(examples[k])

(***************************************************************************)
(* C2 amended: example by example, the labels at the validity=1 positions  *)
(* are, in word order, the mapped labels of exactly the words that encode  *)
(* to at least one sub-word and whose first sub-word survives the trim; so *)
(* an untrimmed example whose words all encode to at least one sub-word    *)
(* gets exactly one label per word, each word's own.                       *)
(***************************************************************************)
C2_RoundTripKeptWords ==
    TransformersDone =>
        /\ Len(ProjectedLabels) = Len(examples)
        /\ \A k \in 1..Len(examples) :
              /\ ProjectedLabels[k] =
                    KeptWordLabels(examples[k].text_a, examples[k].label,
                                   KeptPieces(examples[k]))
              /\ (Untrimmed(examples[k]) /\ EveryWordEncoded(examples[k]))
                    => ProjectedLabels[k] = WordLabelIds(examples[k])

\* two examples were read back, one of them an untrimmed example of two
\* differently labelled words, the first of two sub-words
C2_Witness ==
    /\ TransformersDone
    /\ Len(examples) >= 2
    /\ \E k \in 1..Len(examples) :
          /\ Untrimmed(examples[k]) /\ EveryWordEncoded(examples[k])
          /\ Len(examples[k].text_a) = 2
          /\ examples[k].text_a[1] = 2
          /\ examples[k].label[1] # examples[k].label[2]
          /\ ProjectedLabels[k] = WordLabelIds(examples[k])

(***************************************************************************)
(* C3: greedy packing.  An example's marked sequence is appended to the    *)
(* pending buffer iff pending length + its length <= max_seq_length;       *)
(* otherwise the pending buffer is flushed as one record, padded with      *)
(* token id 1, label IGNORE and masks 0, and the example starts the new    *)
(* buffer; the return flushes what remains.                                *)
(***************************************************************************)
PaddedRecord(p) ==
    LET k == max_seq_length - Len(p.token_ids)
    IN  [input_ids  |-> p.token_ids \o Repeat(1, k),
         input_mask |-> p.input_mask \o Repeat(0, k),
         label_id   |-> p.label_ids \o Repeat(0, k),
         valid_ids  |-> p.valid \o Repeat(0, k),
         label_mask |-> p.label_mask \o Repeat(0, k)]

C3_Step ==
    /\ (model_name # "LSTM" /\ fpc = "loop" /\ ex_index' = ex_index + 1) =>
          IF Len(pending.token_ids) + Len(cur'.token_ids) <= max_seq_length
          THEN /\ features' = features
               /\ pending'.token_ids = pending.token_ids \o cur'.token_ids
               /\ pending'.input_mask = pending.input_mask \o cur'.input_mask
               /\ pending'.label_ids = pending.label_ids \o cur'.label_ids
               /\ pending'.valid = pending.valid \o cur'.valid
               /\ pending'.label_mask = pending.label_mask \o cur'.label_mask
          ELSE /\ features' = Append(features, PaddedRecord(pending))
               /\ pending' = cur'
    /\ (model_name # "LSTM" /\ fpc = "loop" /\ ex_index' = ex_index) =>
          /\ fpc' = "done"
          /\ features' = Append(features, PaddedRecord(pending))

C3_GreedyPacking == [][C3_Step]_vars

Count(s, v) == Cardinality({i \in 1..Len(s) : s[i] = v})

\* two short examples share the first record, a third overflowed into a second
C3_Witness ==
    /\ TransformersDone
    /\ Len(examples) = 3
    /\ \A k \in 1..3 : PieceCount(examples[k]) >= 1
    /\ Len(features) = 2
    /\ Count(features[1].input_ids, 0) = 2
    /\ Count(features[1].input_ids, 1) = 0
    /\ Count(features[2].input_ids, 0) = 1

(***************************************************************************)
(* C4: an example of n sub-words with n >= max_seq_length-1 is cut to its  *)
(* first max_seq_length-2 positions in all four arrays; then id 0 is       *)
(* prepended and id 2 appended, both with label IGNORE, validity 0 and     *)
(* label_mask 0; the marked sequence has length min(n+2, max_seq_length).  *)
(* The marked sequence is what the loop's locals hold when the iteration   *)
(* ends (the final flush may pad those lists afterwards).                  *)
(***************************************************************************)
C4_TrimAndMarkers ==
    (model_name # "LSTM" /\ fpc = "loop" /\ ex_index >= 1) =>
        LET e   == examples[ex_index]
            raw == SubWords(e.text_a, e.label)
            n   == PieceCount(e)
            k   == IF n >= max_seq_length - 1 THEN max_seq_length - 2 ELSE n
            lm  == label_map_of(label_list)
        IN  /\ Len(cur.token_ids) = Min(n + 2, max_seq_length)
            /\ Len(cur.token_ids) <= max_seq_length
            /\ cur.token_ids = <<0>> \o SubSeq(raw.token_ids, 1, k) \o <<2>>
            /\ cur.label_ids =
                  <<0>> \o [i \in 1..k |-> lm[raw.labels[i]]] \o <<0>>
            /\ cur.valid = <<0>> \o SubSeq(raw.valid, 1, k) \o <<0>>
            /\ cur.label_mask = <<0>> \o SubSeq(raw.label_mask, 1, k) \o <<0>>

\* an example that the trim really shortened, and one at the boundary n = max-1
C4_Witness ==
    /\ model_name # "LSTM" /\ fpc = "loop" /\ ex_index >= 2
    /\ PieceCount(examples[ex_index]) = max_seq_length - 1
    /\ PieceCount(examples[ex_index - 1]) > max_seq_length
    /\ Len(cur.token_ids) = max_seq_length

(***************************************************************************)
(* C5: in every record of the recurrent builder valid_ids is 1 at the real *)
(* token positions and 0 at the padding positions.                         *)
(***************************************************************************)
C5_ValidMaskLSTM ==
    model_name = "LSTM" =>
        \A k \in 1..Len(features) :
            \A i \in 1..max_seq_length :
                features[k].valid_ids[i] =
                    IF i <= PieceCount(examples[k]) THEN 1 ELSE 0

(***************************************************************************)
(* C6 as stated: in each epoch model.pt and params.json are written iff    *)
(* that epoch's F1 is strictly greater than the F1 of every earlier epoch. *)
(***************************************************************************)
C6_SavedIffAboveEarlier ==
    \A e \in 1..Len(val_f1) :
        (e \in Range(saves)) <=> (\A j \in 1..(e - 1) : val_f1[e] > val_f1[j])

(***************************************************************************)
(* C6 amended: in each epoch model.pt and params.json are written iff that *)
(* epoch's F1 is strictly greater than the F1 of every earlier epoch and   *)
(* strictly greater than 0.0, the best F1 the loop starts from; for the F1 *)
(* sequence 0.5, 0.4, 0.6 the writes are those of epochs 1 and 3, and the  *)
(* two files exist iff some epoch wrote them.                              *)
(***************************************************************************)
C6_SavedIffAboveBest ==
    /\ \A e \in 1..Len(val_f1) :
          (e \in Range(saves)) <=>
             (val_f1[e] > 0 /\ \A j \in 1..(e - 1) : val_f1[e] > val_f1[j])
    /\ \A i, j \in 1..Len(saves) : i < j => saves[i] < saves[j]
    /\ val_f1 = <<50, 40, 60>> => saves = <<1, 3>>
    /\ tpc \in {"batch", "validate", "done"} =>
          (({"model.pt", "params.json"} \subseteq out_dir.files) <=> saves # <<>>)

\* the run of the claim's example has ended
C6_Witness ==
    /\ tpc = "done"
    /\ val_f1 = <<50, 40, 60>>
    /\ saves = <<1, 3>>
    /\ "model.pt" \in out_dir.files

(***************************************************************************)
(* C7: a call of train that aborts on a configuration error (a non-empty   *)
(* output directory, gradient_accumulation_steps < 1) has created no       *)
(* directory and no file: the output directory is as it was.               *)
(***************************************************************************)
C7_ErrorBeforeWork ==
    [][(/\ tpc = "start" /\ tpc' = "error"
        /\ \/ OutputDirBlocked(out_dir)
           \/ InvalidAccumulation(gradient_accumulation_steps))
          => out_dir' = out_dir]_vars

(***************************************************************************)
(* C8: every optimizer step applies the gradients of exactly               *)
(* gradient_accumulation_steps mini-batches.                               *)
(***************************************************************************)
C8_StepEveryAccumBatches ==
    \A i \in 1..Len(opt_steps) : opt_steps[i] = gradient_accumulation_steps

(***************************************************************************)
(* C9: two runs over the same training label set build the same label map, *)
(* whatever the enumeration order of the set.                              *)
(***************************************************************************)
C9_SameLabelMap ==
    gpc = "done" => run_label_map[1] = run_label_map[2]

(***************************************************************************)
(* C10: load_from_folder returns the documents of a prefix of the          *)
(* directory's JSON files, at most 100 of them.                            *)
(***************************************************************************)
C10_AtMostCapDocuments ==
    lpc = "done" =>
        /\ Len(x_train) <= DocCap
        /\ Len(x_train) <= Len(files)
        /\ Len(y_train) = Len(x_train)
        /\ \A i \in 1..Len(x_train) :
              /\ x_train[i] = read_json(Open(files[i])).tokens
              /\ y_train[i] = read_json(Open(files[i])).labels

(***************************************************************************)
(* C11 as stated: in the two-document scenario, whatever the encoder (at   *)
(* least one sub-word per word), a single record is returned and it has    *)
(* exactly 4 validity=1 positions.                                         *)
(***************************************************************************)
C11_SingleRecordAnyEncoder ==
    fpc = "done" =>
        /\ Len(features) = 1
        /\ Count(features[1].valid_ids, 1) = 4

OnePiecePerWord ==
    \A k \in 1..Len(examples) :
        \A i \in 1..Len(examples[k].text_a) : examples[k].text_a[i] = 1

(***************************************************************************)
(* C11 amended: in the two-document scenario a single record is returned   *)
(* iff the encoder yields exactly one sub-word for each of the four words; *)
(* that record has exactly 4 validity=1 positions, the words' (validity    *)
(* 0,1,1,1,0,0,1,0).  Under any other encoder the two marked sequences     *)
(* take more than 8 positions and two records are returned, whose          *)
(* validity=1 positions are those of the words that survive the trim.      *)
(***************************************************************************)
C11_SingleRecordOnePiece ==
    fpc = "done" =>
        /\ Len(examples) = 2
        /\ (Len(features) = 1) <=> OnePiecePerWord
        /\ OnePiecePerWord =>
              /\ Count(features[1].valid_ids, 1) = 4
              /\ features[1].valid_ids = <<0, 1, 1, 1, 0, 0, 1, 0>>
        /\ ~OnePiecePerWord => Len(features) = 2
        /\ Count(AllValidIds, 1) =
              Len(KeptWordLabels(examples[1].text_a, examples[1].label,
                                 KeptPieces(examples[1])))
              + Len(KeptWordLabels(examples[2].text_a, examples[2].label,
                                   KeptPieces(examples[2])))

\* the scenario under the one-sub-word-per-word encoder has returned
C11_Witness ==
    /\ fpc = "done"
    /\ max_seq_length = 8
    /\ Len(examples) = 2
    /\ examples[1].label = <<"PERSON", "PERSON", "O">>
    /\ OnePiecePerWord
    /\ Len(features) = 1
    /\ Count(features[1].valid_ids, 1) = 4

(***************************************************************************)
(* C12: packing loses, duplicates, splits and reorders nothing.  The       *)
(* non-padding prefixes (input_mask = 1) of the returned records,          *)
(* concatenated in record order, are the examples' marked sequences        *)
(* concatenated in example order, for token ids, label ids, validity and   *)
(* label_mask alike; each example's marked sequence lies contiguously in   *)
(* exactly one record; and no record of the features list is changed, or   *)
(* removed, by a later step.                                               *)
(***************************************************************************)
NonPadLen(rec) == Count(rec.input_mask, 1)

\* input_mask is ones, then zeros
MaskIsPrefix(rec) ==
    \A i \in 1..Len(rec.input_mask) :
        rec.input_mask[i] = IF i <= NonPadLen(rec) THEN 1 ELSE 0

NonPad(rec, arr) == SubSeq(arr, 1, NonPadLen(rec))

MarkedOf(k) == Marked(examples[k], max_seq_length, label_map_of(label_list))

\* where the first k examples' marked sequences end in their concatenation
MarkedEnd(k) ==
    Len(Flatten([j \in 1..k |-> MarkedOf(j).token_ids]))

\* where the first r records' non-padding prefixes end in their concatenation
RecordEnd(r) ==
    Len(Flatten([j \in 1..r |-> NonPad(features[j], features[j].input_ids)]))

\* the records inside which example k's marked sequence lies whole
RecordsHolding(k) ==
    {r \in 1..Len(features) :
        /\ RecordEnd(r - 1) <= MarkedEnd(k - 1)
        /\ MarkedEnd(k) <= RecordEnd(r)}

C12_Returned ==
    TransformersDone =>
        /\ \A r \in 1..Len(features) : MaskIsPrefix(features[r])
        /\ Flatten([r \in 1..Len(features) |->
                       NonPad(features[r], features[r].input_ids)])
             = Flatten([k \in 1..Len(examples) |-> MarkedOf(k).token_ids])
        /\ Flatten([r \in 1..Len(features) |->
                       NonPad(features[r], features[r].label_id)])
             = Flatten([k \in 1..Len(examples) |-> MarkedOf(k).label_ids])
        /\ Flatten([r \in 1..Len(features) |->
                       NonPad(features[r], features[r].valid_ids)])
             = Flatten([k \in 1..Len(examples) |-> MarkedOf(k).valid])
        /\ Flatten([r \in 1..Len(features) |->
                       NonPad(features[r], features[r].label_mask)])
             = Flatten([k \in 1..Len(examples) |-> MarkedOf(k).label_mask])
        /\ \A k \in 1..Len(examples) : Cardinality(RecordsHolding(k)) = 1

C12_RecordsKept ==
    model_name # "LSTM" =>
        /\ Len(features') >= Len(features)
        /\ \A r \in 1..Len(features) : features'[r] = features[r]

C12_PackingLossless == []C12_Returned /\ [][C12_RecordsKept]_vars

\* two examples share the first record; a third, of two sub-words, was put
\* whole into a second record, which is padded
C12_Witness ==
    /\ TransformersDone
    /\ Len(examples) = 3
    /\ PieceCount(examples[1]) >= 1
    /\ PieceCount(examples[2]) >= 1
    /\ PieceCount(examples[3]) = 2
    /\ Len(features) = 2
    /\ RecordsHolding(1) = {1}
    /\ RecordsHolding(2) = {1}
    /\ RecordsHolding(3) = {2}
    /\ NonPadLen(features[2]) < max_seq_length

=============================================================================
